---- MODULE Spec2Model ----
(***************************************************************************)
(* Model of the microapp request-lifecycle core:                           *)
(*   - context.executionContextImpl (NewExecutionContext, SubContext*,     *)
(*     AddLoggerStrFields, SetUOW),                                        *)
(*   - retry.Do as used by App.initializeDB,                               *)
(*   - App bootstrap (NewWithEnvValues / initializeDB),                    *)
(*   - App.Initialize, Start, StartSecure, Stop and DispatchEvent,         *)
(*   - App.loggingMiddleware with its httpStatusRecorder,                  *)
(*   - executionContextImpl.LogError and LogJSONParseError.                *)
(* A Go string is a sequence of characters; a zerolog logger is the        *)
(* sequence of <<key, value>> fields of its context.                       *)
(***************************************************************************)
EXTENDS Integers, Sequences, FiniteSets, TLC

VARIABLES
    nodes,        \* the execution contexts created so far
    uuidCount,    \* identifiers drawn from uuid.NewV4 so far
    fieldsAdded,  \* logger fields added through map arguments so far
    rPc,          \* position of the flow of control inside retry.Do
    rMax,         \* Do's attempts argument
    rDelay,       \* Do's sleep argument
    rTrace,       \* what Do has done: operation results and sleeps, in order
    rResult,      \* the error Do returned
    appPc,        \* position of the process in the life of the App
    ctor,         \* the constructor that was called
    cfg,          \* app.Config
    app,          \* the App struct
    appLog,       \* the lines logged by the App, in order
    dbVar,        \* the variable db of initializeDB
    connAttempts, \* the outcomes of the connection attempts, in order
    calls,        \* calls of Initialize, Start and Stop made so far
    stopPc,       \* position of the flow of control that calls Stop
    libCalls,     \* what the http.Server and the *sql.DB were asked, in order
    dispatched,   \* the events handed to the event dispatcher, in order
    reqPc,        \* position of the request inside loggingMiddleware
    reqHeader,    \* the X-Correlation-ID header of the request
    rec,          \* the httpStatusRecorder of the request
    wire,         \* the status line sent to the client, 0 while none is sent
    ingressLog,   \* the lines logged by loggingMiddleware, in order
    ctxLog,       \* the lines logged through execution contexts, in order
    updPc,        \* position of the request inside the update handler
    updCtx,       \* the context of the request of the update handler
    updFailed,    \* the operations that failed during that request, in order
    updLogged,    \* the calls of LogError during that request
    updResp       \* what that request has written as its response

(***************************************************************************)
(* Bounds                                                                  *)
(***************************************************************************)
MaxNodes == 2
MaxFields == 1
MaxAttempts == 3
MaxCalls == 4
MaxEvents == 2
MaxLines == 1

(***************************************************************************)
(* Strings                                                                 *)
(***************************************************************************)
Whitespace == {" ", "\t"}

RECURSIVE TrimLeft(_)
TrimLeft(s) ==
    IF Len(s) = 0 THEN s
    ELSE IF Head(s) \in Whitespace THEN TrimLeft(Tail(s)) ELSE s

RECURSIVE TrimRight(_)
TrimRight(s) ==
    IF Len(s) = 0 THEN s
    ELSE IF s[Len(s)] \in Whitespace THEN TrimRight(SubSeq(s, 1, Len(s) - 1)) ELSE s

TrimSpace(s) == TrimRight(TrimLeft(s))

\* uuid.NewV4().String(): the n-th identifier drawn from the generator.
\* Successive draws differ and none is empty.
NewV4(n) == [i \in 1..n |-> "u"]

(***************************************************************************)
(* Inputs                                                                  *)
(***************************************************************************)
Nil == "nil"

\* *security.JwtToken values a caller can pass (Nil is the nil pointer).
JwtTokens == {"tokA"}

\* The fields of a token, already rendered as strings.
TokenField(t, f) == <<t, f>>

\* *repository.UnitOfWork values a caller can pass.
UnitsOfWork == {"uowA"}

CorrelationIDs == { <<>>, <<" ", "\t">>, <<" ", "c">> }

Actions == { <<"a">> }

\* context of the zerolog.Logger handed to NewExecutionContext
BaseLoggers == { << <<"service", <<"svc">> >> >> }

FieldKeys == {"k1", "k2"}
FieldVals == { <<"v">>, <<"w">> }

\* map[string]string arguments
FieldMaps ==
    { m \in UNION { [ks -> FieldVals] : ks \in SUBSET FieldKeys } :
        "k2" \in DOMAIN m => (m["k2"] = <<"w">> /\ "k1" \in DOMAIN m /\ m["k1"] = <<"v">>) }

\* Every order in which `for k, v := range m` may visit the map m.
RangeOrders(m) ==
    { o \in [1..Cardinality(DOMAIN m) -> DOMAIN m] :
        \A i, j \in DOMAIN o : i # j => o[i] # o[j] }

\* Str putting the field ahead of the fields the context has.
Str_prepends(ctx, k, v) == << <<k, v>> >> \o ctx

\* zerolog Context.Str(k, v): a new context with the field appended.
Str(ctx, k, v) == Append(ctx, <<k, v>>)

\* loggerWith := logger.With(); for k, v := range m { loggerWith = loggerWith.Str(k, v) }
\* visiting the map in order o; With() copies the parent's context.
RECURSIVE WithFields(_, _, _)
WithFields(ctx, m, o) ==
    IF Len(o) = 0 THEN ctx
    ELSE WithFields(Str(ctx, Head(o), m[Head(o)]), m, Tail(o))

(***************************************************************************)
(* ExecutionContext                                                        *)
(***************************************************************************)
\* RootLogger with the same fields for a nil token as for a present one.
RootLogger_noNilCheck(base, token, action, cid) ==
    Str(Str(Str(Str(Str(Str(Str(base,
        "tenantId", TokenField(token, "TenantID")),
        "userId", TokenField(token, "UserID")),
        "username", TokenField(token, "UserName")),
        "tenantName", TokenField(token, "TenantName")),
        "userDisplayName", TokenField(token, "DisplayName")),
        "action", action),
        "correlationId", cid)

\* The logger built by NewExecutionContext.
RootLogger(base, token, action, cid) ==
    IF token # Nil
    THEN Str(Str(Str(Str(Str(Str(Str(base,
             "tenantId", TokenField(token, "TenantID")),
             "userId", TokenField(token, "UserID")),
             "username", TokenField(token, "UserName")),
             "tenantName", TokenField(token, "TenantName")),
             "userDisplayName", TokenField(token, "DisplayName")),
             "action", action),
             "correlationId", cid)
    ELSE Str(Str(base, "action", action), "correlationId", cid)

\* The test without the TrimSpace.
NeedsNewID_noTrim(correlationID) == Len(correlationID) = 0

\* The test at the top of NewExecutionContext: an identifier is generated.
NeedsNewID(correlationID) == Len(TrimSpace(correlationID)) = 0

\* A context node.  parent and root (0 / self for a root) and generated (the
\* CorrelationID came from the uuid generator) record how the node came to be.
executionContextImpl(cid, uow, token, action, logger, parent, root, generated) ==
    [CorrelationID |-> cid, UOW |-> uow, Token |-> token, Action |-> action,
     logger |-> logger, parent |-> parent, root |-> root, generated |-> generated]

ctxVars == <<nodes, uuidCount, fieldsAdded>>
retryVars == <<rPc, rMax, rDelay, rTrace, rResult>>
appVars == <<appPc, ctor, cfg, app, appLog, dbVar, connAttempts>>
lifeVars == <<calls, stopPc, libCalls, dispatched>>
reqVars == <<reqPc, reqHeader, rec, wire, ingressLog>>
logVars == <<ctxLog>>
updVars == <<updPc, updCtx, updFailed, updLogged, updResp>>

InitCtx ==
    /\ nodes = <<>>
    /\ uuidCount = 0
    /\ fieldsAdded = 0


NewExecutionContext(token, correlationID, action, base) ==
    /\ Len(nodes) < MaxNodes
    /\ LET fresh == NeedsNewID(correlationID)
           cid == IF fresh THEN NewV4(uuidCount + 1) ELSE correlationID
           self == Len(nodes) + 1
       IN /\ uuidCount' = IF fresh THEN uuidCount + 1 ELSE uuidCount
          /\ nodes' = Append(nodes,
                 executionContextImpl(cid, Nil, token, action,
                     RootLogger(base, token, action, cid), 0, self, fresh))
    /\ UNCHANGED <<fieldsAdded, retryVars, appVars, lifeVars, reqVars, logVars, updVars>>

AddLoggerStrFields(n, strFields, o) ==
    /\ fieldsAdded + Len(o) <= MaxFields
    /\ fieldsAdded' = fieldsAdded + Len(o)
    /\ nodes' = [nodes EXCEPT ![n].logger = WithFields(nodes[n].logger, strFields, o)]
    /\ UNCHANGED <<uuidCount, retryVars, appVars, lifeVars, reqVars, logVars, updVars>>

\* SetUOW writing through to the parent of the node as well.
SetUOW_shared(n, uow) ==
    /\ nodes' = [i \in 1..Len(nodes) |->
                    IF i = n \/ i = nodes[n].parent
                    THEN [nodes[i] EXCEPT !.UOW = uow] ELSE nodes[i]]
    /\ UNCHANGED <<uuidCount, fieldsAdded, retryVars, appVars, lifeVars, reqVars, logVars, updVars>>

SetUOW(n, uow) ==
    /\ nodes' = [nodes EXCEPT ![n].UOW = uow]
    /\ UNCHANGED <<uuidCount, fieldsAdded, retryVars, appVars, lifeVars, reqVars, logVars, updVars>>

\* Derived, but drawing a new identifier for the child.
Derived_regenerates(n, uow, token, additionalFields, o) ==
    executionContextImpl(NewV4(uuidCount + 1), uow, token, nodes[n].Action,
        WithFields(nodes[n].logger, additionalFields, o), n, nodes[n].root, FALSE)

\* The common shape of the derivations: a new node built from the caller's
\* CorrelationID and Action, the given uow and token, and a logger branched
\* from the caller's.
Derived(n, uow, token, additionalFields, o) ==
    executionContextImpl(nodes[n].CorrelationID, uow, token, nodes[n].Action,
        WithFields(nodes[n].logger, additionalFields, o), n, nodes[n].root, FALSE)

CanDerive(n, o) ==
    /\ Len(nodes) < MaxNodes
    /\ fieldsAdded + Len(o) <= MaxFields
    /\ fieldsAdded' = fieldsAdded + Len(o)

SubContext(n, additionalFields, o) ==
    /\ CanDerive(n, o)
    /\ nodes' = Append(nodes,
           Derived(n, nodes[n].UOW, nodes[n].Token, additionalFields, o))
    /\ UNCHANGED <<uuidCount, retryVars, appVars, lifeVars, reqVars, logVars, updVars>>

\* SubContextWithToken keeping the caller's token.
SubContextWithToken_keepsToken(n, token, additionalFields, o) ==
    /\ CanDerive(n, o)
    /\ nodes' = Append(nodes,
           Derived(n, nodes[n].UOW, nodes[n].Token, additionalFields, o))
    /\ UNCHANGED <<uuidCount, retryVars, appVars, lifeVars, reqVars, logVars, updVars>>

SubContextWithToken(n, token, additionalFields, o) ==
    /\ CanDerive(n, o)
    /\ nodes' = Append(nodes,
           Derived(n, nodes[n].UOW, token, additionalFields, o))
    /\ UNCHANGED <<uuidCount, retryVars, appVars, lifeVars, reqVars, logVars, updVars>>

SubContextWithTokenAndUoW(n, token, uow, additionalFields, o) ==
    /\ CanDerive(n, o)
    /\ nodes' = Append(nodes, Derived(n, uow, token, additionalFields, o))
    /\ UNCHANGED <<uuidCount, retryVars, appVars, lifeVars, reqVars, logVars, updVars>>

SubContextWithUoW(n, uow, additionalFields, o) ==
    /\ CanDerive(n, o)
    /\ nodes' = Append(nodes,
           Derived(n, uow, nodes[n].Token, additionalFields, o))
    /\ UNCHANGED <<uuidCount, retryVars, appVars, lifeVars, reqVars, logVars, updVars>>

SubContextWithAddlFieldsAndUoW(n, uow, additionalFields, o) ==
    /\ CanDerive(n, o)
    /\ nodes' = Append(nodes,
           Derived(n, uow, nodes[n].Token, additionalFields, o))
    /\ UNCHANGED <<uuidCount, retryVars, appVars, lifeVars, reqVars, logVars, updVars>>

TokenArgs == JwtTokens \cup {Nil}
UoWArgs == UnitsOfWork \cup {Nil}

NextCtx ==
    \/ \E t \in TokenArgs, c \in CorrelationIDs, a \in Actions, b \in BaseLoggers :
          NewExecutionContext(t, c, a, b)
    \/ \E n \in 1..Len(nodes), m \in FieldMaps : \E o \in RangeOrders(m) :
          AddLoggerStrFields(n, m, o)
    \/ \E n \in 1..Len(nodes), u \in UoWArgs : SetUOW(n, u)
    \/ \E n \in 1..Len(nodes), m \in FieldMaps : \E o \in RangeOrders(m) :
          SubContext(n, m, o)
    \/ \E n \in 1..Len(nodes), t \in TokenArgs, m \in FieldMaps : \E o \in RangeOrders(m) :
          SubContextWithToken(n, t, m, o)
    \/ \E n \in 1..Len(nodes), t \in TokenArgs, u \in UoWArgs, m \in FieldMaps :
          \E o \in RangeOrders(m) : SubContextWithTokenAndUoW(n, t, u, m, o)
    \/ \E n \in 1..Len(nodes), u \in UoWArgs, m \in FieldMaps : \E o \in RangeOrders(m) :
          SubContextWithUoW(n, u, m, o)
    \/ \E n \in 1..Len(nodes), u \in UoWArgs, m \in FieldMaps : \E o \in RangeOrders(m) :
          SubContextWithAddlFieldsAndUoW(n, u, m, o)


(***************************************************************************)
(* retry.Do                                                                *)
(***************************************************************************)
\* A Go error value: nil, or an error with its Error() text, a sequence of
\* words.
NilErr == [isNil |-> TRUE, text |-> <<>>]
Err(text) == [isNil |-> FALSE, text |-> text]
ErrRefused == Err(<<"dial", "tcp", "connection", "refused">>)
ErrReset == Err(<<"connection", "reset", "by", "peer">>)
ErrDenied == Err(<<"access", "denied">>)
Errors == {ErrRefused, ErrReset, ErrDenied}

\* What an operation can return: a plain error value or the terminal
\* wrapper retry.Stop{OriginalError: err}.
Plain(err) == [kind |-> "plain", err |-> err]
Stop(err) == [kind |-> "stop", err |-> err]
Results == { Plain(e) : e \in Errors \cup {NilErr} } \cup { Stop(e) : e \in Errors \cup {NilErr} }

\* Durations, in seconds.
Delays == {0, 15}

OpEvent(res) == [ev |-> "op", res |-> res, d |-> 0]
SleepEvent(d) == [ev |-> "sleep", res |-> Plain(NilErr), d |-> d]

\* The operation results observed so far, in order.
OpResults(trace) == SelectSeq(trace, LAMBDA e : e.ev = "op")
Sleeps(trace) == SelectSeq(trace, LAMBDA e : e.ev = "sleep")

InitRetry ==
    /\ rPc = "idle"
    /\ rMax = 0
    /\ rDelay = 0
    /\ rTrace = <<>>
    /\ rResult = NilErr

\* retry.Do(attempts, sleep, fn) is entered.
DoEnter(attempts, sleep) ==
    /\ rPc = "idle"
    /\ rPc' = "attempt"
    /\ rMax' = attempts
    /\ rDelay' = sleep
    /\ rTrace' = <<>>
    /\ rResult' = NilErr

\* DoObserve taking a plain nil for a failure.
DoObserve_nilIsFailure(res) ==
    /\ rPc = "attempt"
    /\ rTrace' = Append(rTrace, OpEvent(res))
    /\ IF res.kind = "stop"
       THEN rPc' = "done" /\ rResult' = res.err
       ELSE IF Len(OpResults(rTrace)) + 1 < rMax
       THEN rPc' = "sleep" /\ rResult' = rResult
       ELSE rPc' = "done" /\ rResult' = res.err
    /\ UNCHANGED <<rMax, rDelay>>

\* DoObserve not recognising the terminal wrapper.
DoObserve_ignoresStop(res) ==
    /\ rPc = "attempt"
    /\ rTrace' = Append(rTrace, OpEvent(res))
    /\ IF res.err = NilErr
       THEN rPc' = "done" /\ rResult' = NilErr
       ELSE IF Len(OpResults(rTrace)) + 1 < rMax
       THEN rPc' = "sleep" /\ rResult' = rResult
       ELSE rPc' = "done" /\ rResult' = res.err
    /\ UNCHANGED <<rMax, rDelay>>

\* DoObserve allowing one attempt too many.
DoObserve_offByOne(res) ==
    /\ rPc = "attempt"
    /\ rTrace' = Append(rTrace, OpEvent(res))
    /\ IF res.kind = "stop"
       THEN rPc' = "done" /\ rResult' = res.err
       ELSE IF res.err = NilErr
       THEN rPc' = "done" /\ rResult' = NilErr
       ELSE IF Len(OpResults(rTrace)) + 1 <= rMax
       THEN rPc' = "sleep" /\ rResult' = rResult
       ELSE rPc' = "done" /\ rResult' = res.err
    /\ UNCHANGED <<rMax, rDelay>>

\* What Do does with the result res of the invocation of the operation it
\* has just made: return, or go to sleep before the next attempt.
DoObserve(res) ==
    /\ rPc = "attempt"
    /\ rTrace' = Append(rTrace, OpEvent(res))
    /\ IF res.kind = "stop"
       THEN rPc' = "done" /\ rResult' = res.err
       ELSE IF res.err = NilErr
       THEN rPc' = "done" /\ rResult' = NilErr
       ELSE IF Len(OpResults(rTrace)) + 1 < rMax
       THEN rPc' = "sleep" /\ rResult' = rResult
       ELSE rPc' = "done" /\ rResult' = res.err
    /\ UNCHANGED <<rMax, rDelay>>

\* DoSleep with a delay that grows with the attempts made.
DoSleep_backoff ==
    /\ rPc = "sleep"
    /\ rTrace' = Append(rTrace, SleepEvent(rDelay * Len(OpResults(rTrace))))
    /\ rPc' = "attempt"
    /\ UNCHANGED <<rMax, rDelay, rResult>>

\* time.Sleep(sleep) between two attempts.
DoSleep ==
    /\ rPc = "sleep"
    /\ rTrace' = Append(rTrace, SleepEvent(rDelay))
    /\ rPc' = "attempt"
    /\ UNCHANGED <<rMax, rDelay, rResult>>

\* A caller runs Do on an arbitrary operation.
CallDo(attempts, sleep) ==
    DoEnter(attempts, sleep) /\ UNCHANGED <<ctxVars, appVars, lifeVars, reqVars, logVars, updVars>>

\* The operation is invoked and returns res.
Attempt(res) == DoObserve(res) /\ UNCHANGED <<ctxVars, appVars, lifeVars, reqVars, logVars, updVars>>

Sleep == DoSleep /\ UNCHANGED <<ctxVars, appVars, lifeVars, reqVars, logVars, updVars>>

NextRetry ==
    \/ \E attempts \in 1..MaxAttempts, sleep \in Delays : CallDo(attempts, sleep)
    \/ \E res \in Results : Attempt(res)
    \/ Sleep


(***************************************************************************)
(* App: NewWithEnvValues, New, initializeDB, Initialize, Start, Stop       *)
(***************************************************************************)
\* retry.Do(3, time.Second*15, ...) in initializeDB
DBAttempts == 3
DBRetryDelay == 15

\* strings.Contains
Contains(str, sub) ==
    \E i \in 1..(Len(str) - Len(sub) + 1) : SubSeq(str, i, i + Len(sub) - 1) = sub

ConnectionRefused == <<"connection", "refused">>

\* strconv.Atoi succeeds: an optional sign followed by digits.
Digits == {"0", "1", "2", "3", "4", "5", "6", "7", "8", "9"}
AtoiOK(str) ==
    LET body == IF Len(str) > 0 /\ str[1] \in {"+", "-"} THEN Tail(str) ELSE str
    IN Len(body) > 0 /\ \A i \in 1..Len(body) : body[i] \in Digits

\* Values of API_PORT in the environment / defaults.
Unset == [set |-> FALSE, val |-> <<>>]
Set(val) == [set |-> TRUE, val |-> val]
ApiPorts == { Unset, Set(<<"8", "0", "8", "0">>), Set(<<"8", "0", "a">>), Set(<<>>) }

\* The configurations the process can be started with.
Configs ==
    [DB_REQUIRED : BOOLEAN, ENABLE_EVENT_DISPATCHER : BOOLEAN,
     LOG_TO_EVENTQ : BOOLEAN, API_PORT : ApiPorts,
     ENABLE_TLS : {"true", ""}, TLS_CRT : {"", "tls.crt"}, TLS_KEY : {"", "tls.key"}]

\* *gorm.DB values: the handle of an open connection, and what gorm.Open
\* hands back beside an error (nothing, or a handle without a connection).
DBConnected == "dbConnected"
DBUnconnected == "dbUnconnected"

\* What one run of the closure of initializeDB meets: sql.Open fails, or
\* gorm.Open returns db and err.
SqlOpenFailed == [sqlErr |-> TRUE, db |-> Nil, err |-> NilErr]
GormOpen(db, err) == [sqlErr |-> FALSE, db |-> db, err |-> err]
ConnOutcomes ==
    {SqlOpenFailed, GormOpen(DBConnected, NilErr)}
    \cup { GormOpen(db, e) : db \in {Nil, DBUnconnected}, e \in Errors }

LogLine(level, msg) == <<level, msg>>

\* app.server: nil until Initialize builds the http.Server.  id tells the
\* servers built one after the other apart; inShutdown and listening are the
\* state the http.Server keeps.
NoServer ==
    [built |-> FALSE, Addr |-> <<>>, id |-> 0, inShutdown |-> FALSE, listening |-> FALSE]

NoApp == [DB |-> Nil, eventDispatcher |-> Nil, logToEventQ |-> FALSE, server |-> NoServer]

InitApp ==
    /\ appPc = "unconfigured"
    /\ ctor = "none"
    /\ cfg = [DB_REQUIRED |-> FALSE, ENABLE_EVENT_DISPATCHER |-> FALSE,
              LOG_TO_EVENTQ |-> FALSE, API_PORT |-> Unset,
              ENABLE_TLS |-> "", TLS_CRT |-> "", TLS_KEY |-> ""]
    /\ app = NoApp
    /\ appLog = <<>>
    /\ dbVar = Nil
    /\ connAttempts = <<>>
    /\ calls = 0
    /\ stopPc = "idle"
    /\ libCalls = <<>>
    /\ dispatched = <<>>

\* NewWithEnvValues up to the call of retry.Do in initializeDB, or to its
\* end when no database is required.  dispatcherOK tells whether
\* event.NewRabbitMQEventDispatcher succeeds.
NewWithEnvValues(appConfig, dispatcherOK) ==
    /\ appPc = "unconfigured"
    /\ ctor' = "NewWithEnvValues"
    /\ cfg' = appConfig
    /\ LET wantsDispatcher == appConfig.ENABLE_EVENT_DISPATCHER \/ appConfig.LOG_TO_EVENTQ
           starting == <<LogLine("info", "Staring")>>
           built == [NoApp EXCEPT
                        !.eventDispatcher = IF wantsDispatcher THEN "rabbitmq" ELSE Nil,
                        !.logToEventQ = appConfig.LOG_TO_EVENTQ]
       IN IF wantsDispatcher /\ ~dispatcherOK
          THEN /\ appLog' = starting \o
                      <<LogLine("fatal", "Failed to initialize event dispatcher to queue, exiting the application!")>>
               /\ appPc' = "exited"
               /\ UNCHANGED <<app, retryVars>>
          ELSE /\ appLog' = starting \o
                      (IF wantsDispatcher THEN <<>>
                       ELSE <<LogLine("warn", "Event dispatcher not enabled")>>)
               /\ app' = built
               /\ IF appConfig.DB_REQUIRED
                  THEN /\ DoEnter(DBAttempts, DBRetryDelay)
                       /\ appPc' = "initializeDB"
                  ELSE /\ appPc' = "constructed"
                       /\ UNCHANGED retryVars
    /\ UNCHANGED <<dbVar, connAttempts, ctxVars, lifeVars, reqVars, logVars, updVars>>

\* ClosureResult handing every failure back as a plain error.
ClosureResult_plainFailures(outcome) ==
    IF ~outcome.err.isNil THEN Plain(outcome.err) ELSE Stop(outcome.err)

\* The result the closure of initializeDB hands to retry.Do.
ClosureResult(outcome) ==
    IF ~outcome.err.isNil /\ Contains(outcome.err.text, ConnectionRefused)
    THEN Plain(outcome.err)
    ELSE Stop(outcome.err)

\* One run of the closure passed to retry.Do.  When sql.Open fails the error
\* is logged and the nil *sql.DB is used: the process panics.
ConnectAttempt(outcome) ==
    /\ appPc = "initializeDB"
    /\ rPc = "attempt"
    /\ connAttempts' = Append(connAttempts, outcome)
    /\ IF outcome.sqlErr
       THEN /\ appLog' = Append(appLog, LogLine("error", "Error creating connection pool. Trying again..."))
            /\ appPc' = "panicked"
            /\ UNCHANGED <<dbVar, retryVars>>
       ELSE /\ dbVar' = outcome.db
            /\ appLog' = IF ClosureResult(outcome).kind = "plain"
                         THEN Append(appLog, LogLine("warn", "Error connecting to Database. Trying again..."))
                         ELSE appLog
            /\ DoObserve(ClosureResult(outcome))
            /\ UNCHANGED appPc
    /\ UNCHANGED <<ctor, cfg, app, ctxVars, lifeVars, reqVars, logVars, updVars>>

\* retry.Do sleeps between two runs of the closure.
ConnectSleep ==
    /\ appPc = "initializeDB"
    /\ DoSleep
    /\ UNCHANGED <<appVars, ctxVars, lifeVars, reqVars, logVars, updVars>>

\* InitializeDBReturn with NewWithEnvValues not looking at the error.
InitializeDBReturn_ignoresError ==
    /\ appPc = "initializeDB"
    /\ rPc = "done"
    /\ app' = [app EXCEPT !.DB = dbVar]
    /\ appLog' = Append(appLog, LogLine("info", "Database connected!"))
    /\ appPc' = "constructed"
    /\ UNCHANGED <<ctor, cfg, dbVar, connAttempts, retryVars, ctxVars, lifeVars, reqVars, logVars, updVars>>

\* retry.Do has returned: the rest of initializeDB and of NewWithEnvValues.
InitializeDBReturn ==
    /\ appPc = "initializeDB"
    /\ rPc = "done"
    /\ app' = [app EXCEPT !.DB = dbVar]
    /\ IF ~rResult.isNil
       THEN /\ appLog' = appLog \o
                   <<LogLine("info", "Database connected!"),
                     LogLine("fatal", "Failed to initialize database, exiting the application!!")>>
            /\ appPc' = "exited"
       ELSE /\ appLog' = Append(appLog, LogLine("info", "Database connected!"))
            /\ appPc' = "constructed"
    /\ UNCHANGED <<ctor, cfg, dbVar, connAttempts, retryVars, ctxVars, lifeVars, reqVars, logVars, updVars>>

\* New(appName, appConfigDefaults, appLog, appDB, appMemcache, appEventDispatcher)
New(appConfig, appDB, appEventDispatcher) ==
    /\ appPc = "unconfigured"
    /\ ctor' = "New"
    /\ cfg' = appConfig
    /\ app' = [NoApp EXCEPT !.DB = appDB, !.eventDispatcher = appEventDispatcher]
    /\ appPc' = "constructed"
    /\ UNCHANGED <<appLog, dbVar, connAttempts, retryVars, ctxVars, lifeVars, reqVars, logVars, updVars>>

\* ApiPort taking every value that is set.
ApiPort_unchecked(config) ==
    IF config.API_PORT.set THEN config.API_PORT.val ELSE <<"8", "0">>

\* The port Initialize resolves.
ApiPort(config) ==
    IF config.API_PORT.set /\ AtoiOK(config.API_PORT.val)
    THEN config.API_PORT.val
    ELSE <<"8", "0">>

\* The flow of control that holds the App is between two calls on it; the
\* process is running.
Idle == appPc \in {"constructed", "initialized", "returned"}
Alive == Idle \/ appPc = "start"

\* Initialize(routeSpecifiers): nothing in it looks at what was called
\* before, and each call builds a new http.Server.
Initialize ==
    /\ Idle
    /\ calls < MaxCalls
    /\ calls' = calls + 1
    /\ appLog' = appLog \o
          (IF cfg.API_PORT.set /\ ~AtoiOK(cfg.API_PORT.val)
           THEN <<LogLine("error", "API port needs to be a number.")>> ELSE <<>>)
          \o <<LogLine("debug", "Api server will start on port")>>
    /\ app' = [app EXCEPT !.server =
                  [built |-> TRUE, Addr |-> ApiPort(cfg), id |-> calls + 1,
                   inShutdown |-> FALSE, listening |-> FALSE]]
    /\ appPc' = "initialized"
    /\ UNCHANGED <<ctor, cfg, dbVar, connAttempts, retryVars, ctxVars,
                   stopPc, libCalls, dispatched, reqVars, logVars, updVars>>

\* http.ErrServerClosed, and the errors a listener fails with.
ErrServerClosed == Err(<<"http:", "Server", "closed">>)
ErrAddrInUse == Err(<<"bind:", "address", "already", "in", "use">>)
ErrAccept == Err(<<"accept:", "too", "many", "open", "files">>)

\* One call made on the http.Server or the *sql.DB.
LibCall(call, srv, err) == [call |-> call, srv |-> srv, err |-> err]

\* Listen on a server that forgets it was shut down.
Listen_ignoresShutdown(bindErr) == bindErr

\* What ListenAndServe and ListenAndServeTLS return on entry; the nil error
\* stands for a listener that was set up and now serves.
Listen(bindErr) == IF app.server.inShutdown THEN ErrServerClosed ELSE bindErr

\* What Start does with the error the listener returned.
StartReturn(err) ==
    IF err # ErrServerClosed
    THEN /\ appLog' = Append(appLog,
                LogLine("fatal", "Unable to start server, exiting the application!"))
         /\ appPc' = "exited"
    ELSE /\ appPc' = "returned"
         /\ UNCHANGED appLog

\* What StartSecure does with the error the listener returned.
StartSecureReturn(err) ==
    /\ appLog' = Append(appLog,
           LogLine("fatal", "Unable to start server or server stopped, exiting the application!"))
    /\ appPc' = "exited"

IsTLS == cfg.ENABLE_TLS = "true"

\* app.server.ListenAndServe() or app.server.ListenAndServeTLS(...) is
\* called: on the nil server the process panics; otherwise the call returns
\* at once with an error or blocks while the server listens.
Serve(bindErr) ==
    IF ~app.server.built
    THEN /\ appPc' = "panicked"
         /\ UNCHANGED <<app, appLog, libCalls>>
    ELSE /\ libCalls' = Append(libCalls,
                LibCall(IF IsTLS THEN "ListenAndServeTLS" ELSE "ListenAndServe",
                        app.server.id, Listen(bindErr)))
         /\ IF Listen(bindErr).isNil
            THEN /\ app' = [app EXCEPT !.server.listening = TRUE]
                 /\ appPc' = "start"
                 /\ UNCHANGED appLog
            ELSE /\ UNCHANGED app
                 /\ IF IsTLS THEN StartSecureReturn(Listen(bindErr))
                    ELSE StartReturn(Listen(bindErr))

\* StartSecure(tlsCert, tlsKey) up to the point where the listener serves.
StartSecure(tlsCert, tlsKey, bindErr) ==
    IF tlsCert = ""
    THEN /\ appLog' = Append(appLog,
                LogLine("fatal", "TLS_CRT is not defined or empty, exiting the application!"))
         /\ appPc' = "exited"
         /\ UNCHANGED <<app, libCalls>>
    ELSE IF tlsKey = ""
    THEN /\ appLog' = Append(appLog,
                LogLine("fatal", "TLS_KEY is not defined or empty, exiting the application!"))
         /\ appPc' = "exited"
         /\ UNCHANGED <<app, libCalls>>
    ELSE Serve(bindErr)

\* Start() up to the point where the listener serves.
Start(bindErr) ==
    /\ Idle
    /\ calls < MaxCalls
    /\ calls' = calls + 1
    /\ IF IsTLS
       THEN StartSecure(cfg.TLS_CRT, cfg.TLS_KEY, bindErr)
       ELSE Serve(bindErr)
    /\ UNCHANGED <<ctor, cfg, dbVar, connAttempts, retryVars, ctxVars,
                   stopPc, dispatched, reqVars, logVars, updVars>>

\* The listener stops and the blocked call returns err: the rest of Start
\* or of StartSecure.  After Shutdown the error is http.ErrServerClosed.
ListenerStops(err) ==
    /\ appPc = "start"
    /\ err = IF app.server.inShutdown THEN ErrServerClosed ELSE ErrAccept
    /\ app' = [app EXCEPT !.server.listening = FALSE]
    /\ libCalls' = Append(libCalls, LibCall("ListenerReturn", app.server.id, err))
    /\ IF IsTLS THEN StartSecureReturn(err) ELSE StartReturn(err)
    /\ UNCHANGED <<ctor, cfg, dbVar, connAttempts, retryVars, ctxVars,
                   calls, stopPc, dispatched, reqVars, logVars, updVars>>

\* Stop() up to and including the call app.server.Shutdown(ctx), made from
\* a second flow of control: on the nil server the process panics.
StopShutdown ==
    /\ Alive
    /\ stopPc = "idle"
    /\ calls < MaxCalls
    /\ calls' = calls + 1
    /\ IF ~app.server.built
       THEN /\ appPc' = "panicked"
            /\ UNCHANGED <<app, stopPc, libCalls>>
       ELSE /\ app' = [app EXCEPT !.server.inShutdown = TRUE,
                                  !.server.listening = FALSE]
            /\ libCalls' = Append(libCalls, LibCall("Shutdown", app.server.id, NilErr))
            /\ stopPc' = "shutdown"
            /\ UNCHANGED appPc
    /\ UNCHANGED <<ctor, cfg, appLog, dbVar, connAttempts, retryVars, ctxVars,
                   dispatched, reqVars, logVars, updVars>>

\* What Shutdown returns: nil, or the error of the context after 2m.
ErrDeadline == Err(<<"context", "deadline", "exceeded">>)
ShutdownResults == {NilErr, ErrDeadline}

\* What app.DB.DB() returns.
ErrInvalidDB == Err(<<"invalid", "db">>)
SqlDB == "sqlDB"
SqlDBResult(sqlDB, err) == [sqlDB |-> sqlDB, err |-> err]
SqlDBResults ==
    {SqlDBResult(SqlDB, NilErr), SqlDBResult(Nil, ErrInvalidDB), SqlDBResult(SqlDB, ErrInvalidDB)}

\* StopFinish closing the handle it obtained.
StopFinish_closesObtained(shutdownErr, h) ==
    /\ Alive
    /\ stopPc = "shutdown"
    /\ stopPc' = "idle"
    /\ LET returned == Append(libCalls, LibCall("ShutdownReturn", 0, shutdownErr))
       IN IF ~cfg.DB_REQUIRED
          THEN libCalls' = returned /\ UNCHANGED appPc
          ELSE IF app.DB = Nil
          THEN libCalls' = returned /\ appPc' = "panicked"
          ELSE IF ~h.err.isNil
          THEN libCalls' = returned /\ UNCHANGED appPc
          ELSE IF h.sqlDB = Nil
          THEN libCalls' = returned /\ appPc' = "panicked"
          ELSE /\ libCalls' = Append(returned, LibCall("Close", 0, h.err))
               /\ UNCHANGED appPc
    /\ UNCHANGED <<ctor, cfg, app, appLog, dbVar, connAttempts, retryVars, ctxVars,
                   calls, dispatched, reqVars, logVars, updVars>>

\* Shutdown returns shutdownErr, which is dropped; the rest of Stop().  h is
\* what app.DB.DB() returns; a call on the nil *gorm.DB or on the nil
\* *sql.DB panics.
StopFinish(shutdownErr, h) ==
    /\ Alive
    /\ stopPc = "shutdown"
    /\ stopPc' = "idle"
    /\ LET returned == Append(libCalls, LibCall("ShutdownReturn", 0, shutdownErr))
       IN IF ~cfg.DB_REQUIRED
          THEN libCalls' = returned /\ UNCHANGED appPc
          ELSE IF app.DB = Nil
          THEN libCalls' = returned /\ appPc' = "panicked"
          ELSE IF h.err.isNil
          THEN libCalls' = returned /\ UNCHANGED appPc
          ELSE IF h.sqlDB = Nil
          THEN libCalls' = returned /\ appPc' = "panicked"
          ELSE /\ libCalls' = Append(returned, LibCall("Close", 0, h.err))
               /\ UNCHANGED appPc
    /\ UNCHANGED <<ctor, cfg, app, appLog, dbVar, connAttempts, retryVars, ctxVars,
                   calls, dispatched, reqVars, logVars, updVars>>

\* The arguments of DispatchEvent.
Topics == {"topicA"}
Payloads == {Nil, "payloadA"}
EventArgs == [token : {"", "rawA"}, corelationID : {"", "c1"}, topic : Topics, payload : Payloads]

\* DispatchEvent forwarding without a look at app.eventDispatcher.
DispatchEvent_unguarded(token, corelationID, topic, payload) ==
    /\ Alive
    /\ Len(dispatched) < MaxEvents
    /\ dispatched' = Append(dispatched,
           [token |-> token, corelationID |-> corelationID,
            topic |-> topic, payload |-> payload])
    /\ UNCHANGED <<appVars, retryVars, ctxVars, calls, stopPc, libCalls, reqVars, logVars, updVars>>

\* DispatchEvent(token, corelationID, topic, payload)
DispatchEvent(token, corelationID, topic, payload) ==
    /\ Alive
    /\ Len(dispatched) < MaxEvents
    /\ IF app.eventDispatcher # Nil
       THEN dispatched' = Append(dispatched,
               [token |-> token, corelationID |-> corelationID,
                topic |-> topic, payload |-> payload])
       ELSE UNCHANGED dispatched
    /\ UNCHANGED <<appVars, retryVars, ctxVars, calls, stopPc, libCalls, reqVars, logVars, updVars>>

NextBoot ==
    \/ \E c \in Configs, ok \in BOOLEAN : NewWithEnvValues(c, ok)
    \/ \E o \in ConnOutcomes : ConnectAttempt(o)
    \/ ConnectSleep
    \/ InitializeDBReturn
    \/ \E c \in Configs, db \in {Nil, DBConnected}, d \in {Nil, "rabbitmq"} : New(c, db, d)
    \/ Initialize

(***************************************************************************)
(* App.loggingMiddleware and httpStatusRecorder                            *)
(***************************************************************************)
\* The X-Correlation-ID values a request can arrive with; r.Header.Get
\* returns the empty string for an absent header.
RequestHeaders == CorrelationIDs \cup { <<"c", "7">> }

\* The status codes a handler passes to WriteHeader.
StatusCodes == {200, 404, 500, 503}

StatusInternalServerError == 500

\* A line of the Ingress logger: its level, the correlationId field of the
\* logger, the fields of the event and the message.
IngressLine(level, correlationId, fields, msg) ==
    [level |-> level, correlationId |-> correlationId, fields |-> fields, msg |-> msg]

InitReq ==
    /\ reqPc = "idle"
    /\ reqHeader = <<>>
    /\ rec = [status |-> 0]
    /\ wire = 0
    /\ ingressLog = <<>>

\* The status the client is sent once the response is complete: the first
\* one written, or 200 when the handler set none.
Sent(w) == IF w = 0 THEN 200 ELSE w

\* http.ResponseWriter.WriteHeader(code) of the server's writer: the first
\* call sets the status line, a later one is ignored.
WriteHeaderOnWire(w, code) == IF w = 0 THEN code ELSE w

\* MiddlewareBegin building its logger before it looks at the header.
MiddlewareBegin_logsFirst(header) ==
    /\ reqPc = "idle"
    /\ LET absent == header = <<>>
           cid == IF absent THEN NewV4(uuidCount + 1) ELSE header
       IN /\ uuidCount' = IF absent THEN uuidCount + 1 ELSE uuidCount
          /\ reqHeader' = cid
          /\ ingressLog' = Append(ingressLog, IngressLine("info", header, <<>>, "Begin"))
    /\ rec' = [status |-> 0]
    /\ wire' = 0
    /\ reqPc' = "handler"
    /\ UNCHANGED <<nodes, fieldsAdded, retryVars, appVars, lifeVars, logVars, updVars>>

\* The middleware up to the call next.ServeHTTP(rec, r), for a request that
\* arrives with the X-Correlation-ID header value header.
MiddlewareBegin(header) ==
    /\ reqPc = "idle"
    /\ LET absent == header = <<>>
           cid == IF absent THEN NewV4(uuidCount + 1) ELSE header
       IN /\ uuidCount' = IF absent THEN uuidCount + 1 ELSE uuidCount
          /\ reqHeader' = cid
          /\ ingressLog' = Append(ingressLog, IngressLine("info", cid, <<>>, "Begin"))
    /\ rec' = [status |-> 0]
    /\ wire' = 0
    /\ reqPc' = "handler"
    /\ UNCHANGED <<nodes, fieldsAdded, retryVars, appVars, lifeVars, logVars, updVars>>

\* The handler calls rec.WriteHeader(code).
WriteHeader(code) ==
    /\ reqPc = "handler"
    /\ rec' = [rec EXCEPT !.status = code]
    /\ wire' = WriteHeaderOnWire(wire, code)
    /\ UNCHANGED <<reqPc, reqHeader, ingressLog, ctxVars, retryVars, appVars, lifeVars, logVars, updVars>>

\* The handler calls rec.Write(body): the method of the embedded
\* ResponseWriter, which sends the status line 200 when none was sent.
Write ==
    /\ reqPc = "handler"
    /\ wire' = WriteHeaderOnWire(wire, 200)
    /\ UNCHANGED <<reqPc, reqHeader, rec, ingressLog, ctxVars, retryVars, appVars, lifeVars, logVars, updVars>>

\* GetCorrelationIDFromRequest(r)
GetCorrelationIDFromRequest == reqHeader

\* The handler builds its root context from the request:
\* app.NewExecutionContext(uow, token, GetCorrelationIDFromRequest(r), action)
HandlerNewExecutionContext(token, action, base) ==
    /\ reqPc = "handler"
    /\ NewExecutionContext(token, GetCorrelationIDFromRequest, action, base)

\* next.ServeHTTP(rec, r) returns.
HandlerReturns ==
    /\ reqPc = "handler"
    /\ reqPc' = "returned"
    /\ UNCHANGED <<reqHeader, rec, wire, ingressLog, ctxVars, retryVars, appVars, lifeVars, logVars, updVars>>

\* The handler panics: the call stack is unwound through the middleware,
\* which defers nothing, and net/http recovers and drops the connection.
HandlerPanics ==
    /\ reqPc = "handler"
    /\ reqPc' = "recovered"
    /\ UNCHANGED <<reqHeader, rec, wire, ingressLog, ctxVars, retryVars, appVars, lifeVars, logVars, updVars>>

\* The middleware after next.ServeHTTP(rec, r) has returned.
MiddlewareEnd ==
    /\ reqPc = "returned"
    /\ ingressLog' = Append(ingressLog,
           IngressLine(IF rec.status >= StatusInternalServerError THEN "error" ELSE "info",
                       reqHeader, << <<"status", rec.status>> >>, "End."))
    /\ reqPc' = "done"
    /\ UNCHANGED <<reqHeader, rec, wire, ctxVars, retryVars, appVars, lifeVars, logVars, updVars>>

NextReq ==
    \/ \E h \in RequestHeaders : MiddlewareBegin(h)
    \/ \E code \in StatusCodes : WriteHeader(code)
    \/ Write
    \/ \E t \in TokenArgs, a \in Actions, b \in BaseLoggers :
          HandlerNewExecutionContext(t, a, b)
    \/ HandlerReturns
    \/ HandlerPanics
    \/ MiddlewareEnd

(***************************************************************************)
(* executionContextImpl.Logger, LogError, LogJSONParseError                *)
(***************************************************************************)
\* *string and *int values.
NilString == [isNil |-> TRUE, val |-> ""]
StringPtr(v) == [isNil |-> FALSE, val |-> v]
NilInt == [isNil |-> TRUE, val |-> 0]
IntPtr(v) == [isNil |-> FALSE, val |-> v]

\* An error value handed to LogError.  impl is the set of the types named
\* in the type switch that the dynamic type of the value is or implements.
GoError(impl, text) ==
    [isNil |-> FALSE, impl |-> impl, text |-> text,
     ErrorKey |-> "", ResourceName |-> "", ResourceValue |-> "",
     ErrorCode |-> "", StackTrace |-> "", APIURL |-> "",
     HTTPResponseBody |-> NilString, HTTPStatusCode |-> NilInt]

NilError == [GoError({}, "") EXCEPT !.isNil = TRUE]
ValidationErrors == { GoError({"ValidationError"}, "name is required") }
NotFoundErrors ==
    { [GoError({"HTTPResourceNotFound"}, "tenant not found") EXCEPT
          !.ErrorKey = "Key_TenantNotFound", !.ResourceName = "tenant",
          !.ResourceValue = "42"] }
APIClientErrors ==
    { [GoError({"APIClientError", "UnexpectedError"}, "upstream failed") EXCEPT
          !.ErrorCode = "Key_APIError", !.StackTrace = "stackA",
          !.APIURL = "http://upstream/v1",
          !.HTTPResponseBody = b, !.HTTPStatusCode = c] :
        b \in {NilString, StringPtr("bad gateway")}, c \in {NilInt, IntPtr(502)} }
UnexpectedErrors ==
    { [GoError({"UnexpectedError"}, "boom") EXCEPT
          !.ErrorCode = "Key_InternalError", !.StackTrace = "stackU"] }
PlainErrors == { GoError({}, "unexpected EOF") }
ErrorValues ==
    {NilError} \cup ValidationErrors \cup NotFoundErrors \cup APIClientErrors
    \cup UnexpectedErrors \cup PlainErrors

\* The constants of the log package.
EventTypeValidationErr == "EventTypeValidationErr"
EventTypeUnexpectedErr == "EventTypeUnexpectedErr"
EventCodeInvalidData == "EventCodeInvalidData"
EventCodeUnknown == "EventCodeUnknown"
MessageInvalidInputData == "MessageInvalidInputData"
MessageParseError == "MessageParseError"

\* The errorMessage arguments of the callers.
ErrorMessages == {"msgA", "MessageInvalidInputData"}

InitLog == ctxLog = <<>>

\* A line written through a context: the level, the context of the logger,
\* the fields of the event and the message.
LogEvent(level, logger, fields, msg) ==
    [level |-> level, logger |-> logger, fields |-> fields, msg |-> msg]

\* context.Logger(eventType, eventCode)
Logger(n, eventType, eventCode) ==
    Str(Str(nodes[n].logger, "eventType", eventType), "eventCode", eventCode)

\* zerolog Event.Err(err): no field for the nil error.
ErrField(err) == IF err.isNil THEN <<>> ELSE << <<"error", err.text>> >>

\* The case of a type switch for the type T matches err.
Matches(err, T) == T \in err.impl

\* The fields of the event for an APIClientError: body and status code only
\* when the pointers are not nil.
APIClientFields(err) ==
    ErrField(err) \o << <<"stack", err.StackTrace>>, <<"apiURL", err.APIURL>> >>
    \o (IF ~err.HTTPResponseBody.isNil
        THEN << <<"responseBody", err.HTTPResponseBody.val>> >> ELSE <<>>)
    \o (IF ~err.HTTPStatusCode.isNil
        THEN << <<"responseStatusCode", err.HTTPStatusCode.val>> >> ELSE <<>>)

\* ErrorEvent with the case for UnexpectedError ahead of the one for
\* APIClientError.
ErrorEvent_unexpectedFirst(n, err, errorMessage) ==
    IF Matches(err, "ValidationError")
    THEN LogEvent("info", Logger(n, EventTypeValidationErr, EventCodeInvalidData),
                  ErrField(err), MessageInvalidInputData)
    ELSE IF Matches(err, "HTTPResourceNotFound")
    THEN LogEvent("debug", Logger(n, EventTypeUnexpectedErr, err.ErrorKey),
                  ErrField(err) \o << <<"resourceName", err.ResourceName>>,
                                      <<"resourceValue", err.ResourceValue>> >>,
                  errorMessage)
    ELSE IF Matches(err, "UnexpectedError")
    THEN LogEvent("error", Logger(n, EventTypeUnexpectedErr, err.ErrorCode),
                  ErrField(err) \o << <<"stack", err.StackTrace>> >>, errorMessage)
    ELSE IF Matches(err, "APIClientError")
    THEN LogEvent("error", Logger(n, EventTypeUnexpectedErr, err.ErrorCode),
                  APIClientFields(err), errorMessage)
    ELSE LogEvent("error", Logger(n, EventTypeUnexpectedErr, EventCodeUnknown),
                  ErrField(err), errorMessage)

\* The line LogError(err, errorMessage) writes on node n: the type switch.
ErrorEvent(n, err, errorMessage) ==
    IF Matches(err, "ValidationError")
    THEN LogEvent("info", Logger(n, EventTypeValidationErr, EventCodeInvalidData),
                  ErrField(err), MessageInvalidInputData)
    ELSE IF Matches(err, "HTTPResourceNotFound")
    THEN LogEvent("debug", Logger(n, EventTypeUnexpectedErr, err.ErrorKey),
                  ErrField(err) \o << <<"resourceName", err.ResourceName>>,
                                      <<"resourceValue", err.ResourceValue>> >>,
                  errorMessage)
    ELSE IF Matches(err, "APIClientError")
    THEN LogEvent("error", Logger(n, EventTypeUnexpectedErr, err.ErrorCode),
                  APIClientFields(err), errorMessage)
    ELSE IF Matches(err, "UnexpectedError")
    THEN LogEvent("error", Logger(n, EventTypeUnexpectedErr, err.ErrorCode),
                  ErrField(err) \o << <<"stack", err.StackTrace>> >>, errorMessage)
    ELSE LogEvent("error", Logger(n, EventTypeUnexpectedErr, EventCodeUnknown),
                  ErrField(err), errorMessage)

\* LogError passing the caller's message on for every kind.
LogError_callerMessage(n, err, errorMessage) ==
    /\ n \in 1..Len(nodes)
    /\ Len(ctxLog) < MaxLines
    /\ ctxLog' = Append(ctxLog,
           [ErrorEvent(n, err, errorMessage) EXCEPT !.msg = errorMessage])
    /\ UNCHANGED <<ctxVars, retryVars, appVars, lifeVars, reqVars, updVars>>

\* LogError(err, errorMessage) on node n
LogError(n, err, errorMessage) ==
    /\ n \in 1..Len(nodes)
    /\ Len(ctxLog) < MaxLines
    /\ ctxLog' = Append(ctxLog, ErrorEvent(n, err, errorMessage))
    /\ UNCHANGED <<ctxVars, retryVars, appVars, lifeVars, reqVars, updVars>>

\* LogJSONParseError(err) on node n
LogJSONParseError(n, err) == LogError(n, err, MessageParseError)

\* LogError is called on contexts built with and without a token.
NextLog ==
    \/ \E t \in TokenArgs, c \in { <<" ", "c">> }, a \in Actions, b \in BaseLoggers :
          NewExecutionContext(t, c, a, b)
    \/ \E n \in 1..Len(nodes), err \in ErrorValues, msg \in ErrorMessages :
          LogError(n, err, msg)
    \/ \E n \in 1..Len(nodes), err \in ErrorValues : LogJSONParseError(n, err)

\* No request has reached the update handler.
InitUpd ==
    /\ updPc = "idle"
    /\ updCtx = 0
    /\ updFailed = <<>>
    /\ updLogged = 0
    /\ updResp = "none"

Init == InitCtx /\ InitRetry /\ InitApp /\ InitReq /\ InitLog /\ InitUpd

vars == <<nodes, uuidCount, fieldsAdded, rPc, rMax, rDelay, rTrace, rResult,
         appPc, ctor, cfg, app, appLog, dbVar, connAttempts,
         calls, stopPc, libCalls, dispatched,
         reqPc, reqHeader, rec, wire, ingressLog, ctxLog,
         updPc, updCtx, updFailed, updLogged, updResp>>

SpecCtx == Init /\ [][NextCtx]_vars

SpecRetry == Init /\ [][NextRetry]_vars

SpecBoot == Init /\ [][NextBoot]_vars

\* The configurations that differ in what Start, Stop and DispatchEvent
\* read.
ServeConfigs ==
    { c \in Configs :
        c.API_PORT = Unset /\ ~c.ENABLE_EVENT_DISPATCHER /\ ~c.LOG_TO_EVENTQ }

\* The calls a program makes on an App it built with New.
NextLife ==
    \/ \E c \in ServeConfigs, db \in {Nil, DBConnected}, d \in {Nil, "rabbitmq"} :
          New(c, db, d)
    \/ Initialize
    \/ \E bindErr \in {NilErr, ErrAddrInUse} : Start(bindErr)
    \/ \E err \in {ErrServerClosed, ErrAccept} : ListenerStops(err)
    \/ StopShutdown
    \/ \E e \in ShutdownResults, h \in SqlDBResults : StopFinish(e, h)

SpecLife == Init /\ [][NextLife]_vars

NextDispatch ==
    \/ \E c \in ServeConfigs, db \in {Nil, DBConnected}, d \in {Nil, "rabbitmq"} :
          New(c, db, d)
    \/ \E e \in EventArgs : DispatchEvent(e.token, e.corelationID, e.topic, e.payload)

SpecDispatch == Init /\ [][NextDispatch]_vars

SpecReq == Init /\ [][NextReq]_vars

SpecLog == Init /\ [][NextLog]_vars

\* map[string]string arguments of one field: a key the logger has from its
\* creation, and a key under two values.
OneFieldMaps ==
    { [k \in {"service"} |-> <<"w">>] }
    \cup { m \in FieldMaps : DOMAIN m = {"k1"} }

\* Contexts whose loggers are given fields, and contexts derived from them.
NextFields ==
    \/ \E t \in TokenArgs, c \in { <<" ", "c">> }, a \in Actions, b \in BaseLoggers :
          NewExecutionContext(t, c, a, b)
    \/ \E n \in 1..Len(nodes), m \in OneFieldMaps : \E o \in RangeOrders(m) :
          AddLoggerStrFields(n, m, o)
    \/ \E n \in 1..Len(nodes), m \in OneFieldMaps \cup { m \in FieldMaps : DOMAIN m = {} } :
          \E o \in RangeOrders(m) : SubContext(n, m, o)
    \/ \E n \in 1..Len(nodes), err \in PlainErrors, msg \in {"msgA"} :
          LogError(n, err, msg)

SpecFields == Init /\ [][NextFields]_vars

(***************************************************************************)
(* SettingsMetadataController.update and its helper getTenant              *)
(***************************************************************************)
\* What the handler has written to the http.ResponseWriter.
RespondError == "error"
RespondJSON == "json"

MessageUnableToFindURLResource == "MessageUnableToFindURLResource"
MessageGenericErrorTemplate == "MessageGenericErrorTemplate"
MessageNewEntityError == "MessageNewEntityError"
MessageUpdateEntityError == "MessageUpdateEntityError"

\* The errors the operations of the handler fail with.
ParseErrors == ValidationErrors \cup PlainErrors
OperationErrors == ValidationErrors \cup NotFoundErrors \cup UnexpectedErrors \cup PlainErrors

\* A context was built that no request has used yet.
ContextReady == Len(nodes) > updCtx

\* context := controller.app.NewExecutionContext(token, correlation id, ...)
UpdateNewExecutionContext(token, correlationID, action, base) ==
    /\ updPc = "idle"
    /\ ~ContextReady
    /\ Len(ctxLog) < MaxLines
    /\ NewExecutionContext(token, correlationID, action, base)

\* The operation op passed: the handler goes on to the next one.
Passes(next) ==
    /\ updPc' = next
    /\ UNCHANGED <<updCtx, updFailed, updLogged, updResp, ctxLog>>

\* The operation op failed with err and the handler returns: after a
\* LogError with the message msg when logs, and after a RespondError when
\* responds.
Returns(op, err, logs, msg, responds) ==
    /\ updPc' = "idle"
    /\ updFailed' = Append(updFailed, op)
    /\ ctxLog' = IF logs THEN Append(ctxLog, ErrorEvent(updCtx, err, msg)) ELSE ctxLog
    /\ updLogged' = IF logs THEN updLogged + 1 ELSE updLogged
    /\ updResp' = IF responds THEN RespondError ELSE updResp
    /\ UNCHANGED updCtx

\* microappWeb.UnmarshalJSON(r, &reqDTO), the first operation of a request
UnmarshalJSON(err) ==
    /\ updPc = "idle"
    /\ ContextReady
    /\ updCtx' = Len(nodes)
    /\ IF err.isNil
       THEN /\ updPc' = "GetTenantIDAsUUID"
            /\ updFailed' = <<>>
            /\ updLogged' = 0
            /\ updResp' = "none"
            /\ UNCHANGED ctxLog
       ELSE /\ updPc' = "idle"
            /\ updFailed' = <<"UnmarshalJSON">>
            /\ ctxLog' = Append(ctxLog, ErrorEvent(Len(nodes), err, MessageParseError))
            /\ updLogged' = 1
            /\ updResp' = RespondError
    /\ UNCHANGED <<ctxVars, retryVars, appVars, lifeVars, reqVars>>

\* tenantService.GetTenantIDFromToken().GetTenantIDAsUUID(...)
GetTenantIDAsUUID(err) ==
    /\ updPc = "GetTenantIDAsUUID"
    /\ IF err.isNil
       THEN Passes("getTenant")
       ELSE Returns("GetTenantIDAsUUID", err, TRUE, MessageUnableToFindURLResource, TRUE)
    /\ UNCHANGED <<ctxVars, retryVars, appVars, lifeVars, reqVars>>

\* controller.getTenant(...): repository.GetFirst fails with err, which is
\* a record-not-found error or not; the caller responds with what getTenant
\* returns.
getTenant(err, isRecordNotFound) ==
    /\ updPc = "getTenant"
    /\ IF err.isNil
       THEN Passes("Open")
       ELSE Returns("GetFirst", err, TRUE,
                    IF isRecordNotFound THEN MessageUnableToFindURLResource
                    ELSE MessageGenericErrorTemplate,
                    TRUE)
    /\ UNCHANGED <<ctxVars, retryVars, appVars, lifeVars, reqVars>>

\* os.Open(SETTINGS_METADATA_PATH)
Open(err) ==
    /\ updPc = "Open"
    /\ IF err.isNil
       THEN Passes("ReadAll")
       ELSE Returns("Open", err, TRUE, MessageGenericErrorTemplate, FALSE)
    /\ UNCHANGED <<ctxVars, retryVars, appVars, lifeVars, reqVars>>

\* ioutil.ReadAll(jsonFile)
ReadAll(err) ==
    /\ updPc = "ReadAll"
    /\ IF err.isNil
       THEN Passes("Unmarshal")
       ELSE Returns("ReadAll", err, TRUE, MessageGenericErrorTemplate, FALSE)
    /\ UNCHANGED <<ctxVars, retryVars, appVars, lifeVars, reqVars>>

\* json.Unmarshal(byteValue, &settingsmetadata): the result is dropped.
Unmarshal(err) ==
    /\ updPc = "Unmarshal"
    /\ updPc' = "tenant.Update"
    /\ updFailed' = IF err.isNil THEN updFailed ELSE Append(updFailed, "Unmarshal")
    /\ UNCHANGED <<updCtx, updLogged, updResp, ctxLog>>
    /\ UNCHANGED <<ctxVars, retryVars, appVars, lifeVars, reqVars>>

\* tenant.Update(reqDTO.Settings, settingsmetadata)
TenantUpdate(err) ==
    /\ updPc = "tenant.Update"
    /\ IF err.isNil
       THEN Passes("repository.Update")
       ELSE Returns("tenant.Update", err, TRUE, MessageNewEntityError, TRUE)
    /\ UNCHANGED <<ctxVars, retryVars, appVars, lifeVars, reqVars>>

\* controller.repository.Update(uow, &tenant), and on its success the rest
\* of the handler: the completion line and the response.  The App of the
\* controller has no event dispatcher, so DispatchEvent does nothing.
RepositoryUpdate(err) ==
    /\ updPc = "repository.Update"
    /\ app.eventDispatcher = Nil
    /\ IF err.isNil
       THEN /\ updPc' = "idle"
            /\ ctxLog' = Append(ctxLog,
                   LogEvent("info", nodes[updCtx].logger,
                            << <<"eventType", "EventTypeSuccess">>,
                               <<"eventCode", "EventCodeActionComplete">>,
                               <<"TenantId", "42">> >>,
                            "Tenant settings updated"))
            /\ updResp' = RespondJSON
            /\ UNCHANGED <<updCtx, updFailed, updLogged>>
       ELSE Returns("repository.Update", err, TRUE, MessageUpdateEntityError, TRUE)
    /\ UNCHANGED <<ctxVars, retryVars, appVars, lifeVars, reqVars>>

NextUpdate ==
    \/ \E t \in TokenArgs, c \in CorrelationIDs, a \in Actions, b \in BaseLoggers :
          UpdateNewExecutionContext(t, c, a, b)
    \/ \E err \in {NilError} \cup ParseErrors : UnmarshalJSON(err)
    \/ \E err \in {NilError} \cup OperationErrors : GetTenantIDAsUUID(err)
    \/ \E err \in {NilError} \cup OperationErrors, nf \in BOOLEAN : getTenant(err, nf)
    \/ \E err \in {NilError} \cup OperationErrors : Open(err)
    \/ \E err \in {NilError} \cup OperationErrors : ReadAll(err)
    \/ \E err \in {NilError} \cup OperationErrors : Unmarshal(err)
    \/ \E err \in {NilError} \cup OperationErrors : TenantUpdate(err)
    \/ \E err \in {NilError} \cup OperationErrors : RepositoryUpdate(err)

SpecUpdate == Init /\ [][NextUpdate]_vars

\* The operation returns and the sleep ends.
FairSpecRetry ==
    SpecRetry /\ WF_vars(\E res \in Results : Attempt(res)) /\ WF_vars(Sleep)

(***************************************************************************)
(* Properties of the execution context                                     *)
(***************************************************************************)
Last(seq) == seq[Len(seq)]

Roots == { i \in 1..Len(nodes) : nodes[i].parent = 0 }
Children == { i \in 1..Len(nodes) : nodes[i].parent # 0 }

IsBlank(str) == \A i \in 1..Len(str) : str[i] \in {" ", "\t"}

AppendsDerived == Len(nodes') = Len(nodes) + 1 /\ Last(nodes').parent # 0
AppendsRoot == Len(nodes') = Len(nodes) + 1 /\ Last(nodes').parent = 0
AddsFields == Len(nodes') = Len(nodes) /\ fieldsAdded' # fieldsAdded
KeepsFields == Len(nodes') = Len(nodes) /\ fieldsAdded' = fieldsAdded

\* C2: a derivation leaves every existing node exactly as it was;
\* AddLoggerStrFields on node n changes nothing but the logger of n; SetUOW
\* on node n changes nothing but the UOW of n.
C2_Isolation ==
    [][ /\ AppendsDerived =>
              \A i \in 1..Len(nodes) : nodes'[i] = nodes[i]
        /\ AddsFields =>
              \A n \in 1..Len(nodes), m \in FieldMaps : \A o \in RangeOrders(m) :
                  AddLoggerStrFields(n, m, o) =>
                      /\ \A i \in 1..Len(nodes) : i # n => nodes'[i] = nodes[i]
                      /\ nodes'[n] = [nodes[n] EXCEPT !.logger = nodes'[n].logger]
        /\ KeepsFields =>
              \A n \in 1..Len(nodes), u \in UoWArgs :
                  SetUOW(n, u) =>
                      /\ \A i \in 1..Len(nodes) : i # n => nodes'[i] = nodes[i]
                      /\ nodes'[n] = [nodes[n] EXCEPT !.UOW = nodes'[n].UOW] ]_vars

\* A parent whose logger was extended after the derivation of a child whose
\* scope was then set to something else.
C2_Witness ==
    \E i \in Children :
        /\ Len(nodes[nodes[i].parent].logger) > Len(nodes[i].logger)
        /\ nodes[i].UOW # nodes[nodes[i].parent].UOW

\* C3: the node a derivation appends has, per operation, the given Token
\* and UOW or the ones the caller holds at that moment.
C3_DerivationMatrix ==
    [][ AppendsDerived =>
        \A n \in {Last(nodes').parent}, m \in FieldMaps : \A o \in RangeOrders(m) :
          /\ SubContext(n, m, o) =>
                /\ Last(nodes').Token = nodes[n].Token
                /\ Last(nodes').UOW = nodes[n].UOW
          /\ \A t \in TokenArgs : SubContextWithToken(n, t, m, o) =>
                /\ Last(nodes').Token = t
                /\ Last(nodes').UOW = nodes[n].UOW
          /\ \A u \in UoWArgs : SubContextWithUoW(n, u, m, o) =>
                /\ Last(nodes').Token = nodes[n].Token
                /\ Last(nodes').UOW = u
          /\ \A t \in TokenArgs, u \in UoWArgs :
                SubContextWithTokenAndUoW(n, t, u, m, o) =>
                    /\ Last(nodes').Token = t
                    /\ Last(nodes').UOW = u ]_vars

\* A child holding the scope its parent was given by SetUOW, under another
\* identity than its parent's.
C3_Witness ==
    \E i \in Children :
        /\ nodes[nodes[i].parent].UOW # Nil
        /\ nodes[i].UOW = nodes[nodes[i].parent].UOW
        /\ nodes[i].Token # nodes[nodes[i].parent].Token

\* C4: NewExecutionContext with a blank correlationID yields a non-empty
\* CorrelationID that no earlier generated one equals; with a non-blank
\* correlationID it yields exactly that value.
C4_FreshCorrelationID ==
    [][ AppendsRoot =>
        \A t \in TokenArgs, c \in CorrelationIDs, a \in Actions, b \in BaseLoggers :
          NewExecutionContext(t, c, a, b) =>
              IF IsBlank(c)
              THEN /\ Last(nodes').CorrelationID # <<>>
                   /\ Last(nodes').generated
                   /\ \A i \in 1..Len(nodes) :
                         nodes[i].generated =>
                             nodes[i].CorrelationID # Last(nodes').CorrelationID
              ELSE Last(nodes').CorrelationID = c ]_vars

\* Two roots that both had their CorrelationID generated.
C4_Witness ==
    \E i, j \in Roots : i # j /\ nodes[i].generated /\ nodes[j].generated

\* C5: the logger of a new root is the base logger followed by tenantId,
\* userId, username, tenantName, userDisplayName, action, correlationId when
\* a token is given, and by action, correlationId alone when it is not.
C5_RootLoggerFields ==
    [][ AppendsRoot =>
        \A t \in TokenArgs, c \in CorrelationIDs, a \in Actions, b \in BaseLoggers :
          NewExecutionContext(t, c, a, b) =>
              /\ Last(nodes').Token = t
              /\ Last(nodes').logger =
                    b \o (IF t # Nil
                          THEN << <<"tenantId", TokenField(t, "TenantID")>>,
                                  <<"userId", TokenField(t, "UserID")>>,
                                  <<"username", TokenField(t, "UserName")>>,
                                  <<"tenantName", TokenField(t, "TenantName")>>,
                                  <<"userDisplayName", TokenField(t, "DisplayName")>> >>
                          ELSE << >>)
                      \o << <<"action", a>>,
                            <<"correlationId", Last(nodes').CorrelationID>> >> ]_vars

\* A root built without a token next to a root built with one.
C5_Witness ==
    \E i, j \in Roots : nodes[i].Token = Nil /\ nodes[j].Token # Nil

(***************************************************************************)
(* Properties of retry.Do                                                  *)
(***************************************************************************)
Invocations == OpResults(rTrace)

IsPlainFailure(res) == res.kind = "plain" /\ ~res.err.isNil

\* C6: an invocation that returns a plain nil is the last one, and Do has
\* returned nil; so k plain failures followed by a plain nil make exactly
\* k + 1 invocations.
C6_StopsOnSuccess ==
    \A i \in 1..Len(Invocations) :
        Invocations[i].res = Plain(NilErr) =>
            /\ i = Len(Invocations)
            /\ \A j \in 1..(i - 1) : IsPlainFailure(Invocations[j].res)
            /\ rPc = "done"
            /\ rResult = NilErr

\* Do(3, 0, op) has returned nil after two failures and a success.
C6_Witness ==
    /\ rPc = "done" /\ rMax = 3 /\ rDelay = 0
    /\ Len(Invocations) = 3
    /\ IsPlainFailure(Invocations[1].res)
    /\ IsPlainFailure(Invocations[2].res)
    /\ Invocations[3].res = Plain(NilErr)
    /\ rResult = NilErr

\* C7: an invocation that returns the terminal wrapper is the last one, and
\* Do has returned the error the wrapper carries (nil when it carries nil).
C7_StopsOnTerminal ==
    \A i \in 1..Len(Invocations) :
        Invocations[i].res.kind = "stop" =>
            /\ i = Len(Invocations)
            /\ rPc = "done"
            /\ rResult = Invocations[i].res.err

\* Do(3, 0, op) has returned the wrapped error after a single invocation.
C7_Witness ==
    /\ rPc = "done" /\ rMax = 3 /\ rDelay = 0
    /\ Len(Invocations) = 1
    /\ Invocations[1].res = Stop(ErrDenied)
    /\ rResult = ErrDenied

C8_AtMostMaxAttempts ==
    /\ rPc # "idle" => Len(Invocations) <= rMax
    /\ (rPc = "done" /\ \A i \in 1..Len(Invocations) : IsPlainFailure(Invocations[i].res)) =>
          /\ Len(Invocations) = rMax
          /\ rResult = Invocations[rMax].res.err

\* C8: Do never makes more than maxAttempts invocations and, once entered,
\* returns; when every invocation failed with a plain error there were
\* exactly maxAttempts of them and Do returned the error of the last.
C8_Terminates ==
    /\ []C8_AtMostMaxAttempts
    /\ (rPc = "attempt") ~> (rPc = "done")

\* Do(2, 0, op) has returned the second of two different plain errors.
C8_Witness ==
    /\ rPc = "done" /\ rMax = 2 /\ rDelay = 0
    /\ Len(Invocations) = 2
    /\ Invocations[1].res = Plain(ErrRefused)
    /\ Invocations[2].res = Plain(ErrDenied)
    /\ rResult = ErrDenied

\* C9: invocations and sleeps alternate, starting with an invocation; each
\* sleep lasts rDelay and follows a plain failure that was not the last
\* allowed attempt; Do is about to invoke the operation after each sleep and
\* returns right after an invocation, so it has slept once less than it has
\* invoked the operation.
C9_SleepsBetweenAttempts ==
    /\ \A i \in 1..Len(rTrace) :
          IF i % 2 = 1
          THEN rTrace[i].ev = "op"
          ELSE /\ rTrace[i].ev = "sleep"
               /\ rTrace[i].d = rDelay
               /\ IsPlainFailure(rTrace[i - 1].res)
               /\ i \div 2 < rMax
    /\ rPc = "attempt" => Len(rTrace) % 2 = 0
    /\ rPc = "sleep" => Len(rTrace) % 2 = 1
    /\ rPc = "done" =>
          /\ Len(rTrace) % 2 = 1
          /\ Len(Sleeps(rTrace)) = Len(Invocations) - 1

\* Do(3, 15, op) has returned after three failures and two sleeps of 15.
C9_Witness ==
    /\ rPc = "done" /\ rMax = 3 /\ rDelay = 15
    /\ Len(rTrace) = 5
    /\ IsPlainFailure(rTrace[5].res)
    /\ rTrace[2].d = 15 /\ rTrace[4].d = 15

(***************************************************************************)
(* Properties of the bootstrap                                             *)
(***************************************************************************)
Succeeded(outcome) == ~outcome.sqlErr /\ outcome.err.isNil
Refused(outcome) == ~outcome.sqlErr /\ outcome.err = ErrRefused

AppReturned == appPc \in {"constructed", "initialized"}

\* C10: when NewWithEnvValues runs with the database required, the App is
\* returned only after a connection attempt that succeeded, with the handle
\* of that connection; after DBAttempts refused attempts, or an attempt that
\* failed otherwise, the App is never returned and no server is built.
C10_RequiredDatabaseOrFatal ==
    (ctor = "NewWithEnvValues" /\ cfg.DB_REQUIRED) =>
        /\ AppReturned =>
              /\ \E i \in 1..Len(connAttempts) : Succeeded(connAttempts[i])
              /\ app.DB = DBConnected
        /\ (\/ /\ Len(connAttempts) = DBAttempts
               /\ \A i \in 1..Len(connAttempts) : Refused(connAttempts[i])
            \/ \E i \in 1..Len(connAttempts) :
                  ~Succeeded(connAttempts[i]) /\ ~Refused(connAttempts[i])) =>
              /\ appPc \in {"initializeDB", "exited", "panicked"}
              /\ ~app.server.built

\* The process has exited after DBAttempts refused connection attempts.
C10_Witness ==
    /\ ctor = "NewWithEnvValues" /\ cfg.DB_REQUIRED
    /\ Len(connAttempts) = DBAttempts
    /\ \A i \in 1..Len(connAttempts) : Refused(connAttempts[i])
    /\ appPc = "exited"

(***************************************************************************)
(* Properties of Initialize, Start and Stop                                *)
(***************************************************************************)
ListenCalls == {"ListenAndServe", "ListenAndServeTLS"}

\* The i-th call made on the libraries set the server srv to serve.
Serves(i) == libCalls[i].call \in ListenCalls /\ libCalls[i].err.isNil
ShutsDown(i) == libCalls[i].call = "Shutdown"

\* Start takes effect only on a server Initialize has built.
StartAfterInitialize ==
    /\ app.server.listening => app.server.built
    /\ \A i \in 1..Len(libCalls) : Serves(i) => libCalls[i].srv >= 1

\* A server that Stop has shut down does not serve again.
NoServingAfterStop ==
    /\ app.server.inShutdown => ~app.server.listening
    /\ \A i, j \in 1..Len(libCalls) :
          (ShutsDown(i) /\ i < j /\ libCalls[j].srv = libCalls[i].srv) => ~Serves(j)

ListenerReturns == appPc' # appPc /\ appPc' \in {"returned", "exited"}

\* C12: when the listener stops because Stop requested the shutdown, Start
\* returns normally, with plain serving and with TLS; when it stops with
\* another error the process exits with a fatal line; with TLS enabled and an
\* empty certificate or key path the process exits before any serving.
C12_CleanCloseIsNotFatal ==
    [][ ListenerReturns =>
          /\ \A err \in {ErrServerClosed, ErrAccept} : ListenerStops(err) =>
                IF err = ErrServerClosed
                THEN appPc' = "returned" /\ appLog' = appLog
                ELSE appPc' = "exited" /\ Last(appLog')[1] = "fatal"
          /\ \A bindErr \in {NilErr, ErrAddrInUse} : Start(bindErr) =>
                IF IsTLS /\ (cfg.TLS_CRT = "" \/ cfg.TLS_KEY = "")
                THEN /\ appPc' = "exited" /\ Last(appLog')[1] = "fatal"
                     /\ libCalls' = libCalls /\ ~app'.server.listening
                ELSE IF Listen(bindErr) = ErrServerClosed
                THEN appPc' = "returned" /\ appLog' = appLog
                ELSE appPc' = "exited" /\ Last(appLog')[1] = "fatal" ]_vars

(***************************************************************************)
(* Properties of the logging middleware                                    *)
(***************************************************************************)
\* The messages of the lines logged for the request, in order.
IngressMsgs == [i \in 1..Len(ingressLog) |-> ingressLog[i].msg]

\* The handler has finished, by returning or by panicking, and the
\* middleware has done what it does after it.
RequestOver == reqPc \in {"done", "recovered"}

\* C13: nothing is logged before the request arrives; while the handler
\* runs exactly the "Begin" line is logged; once the handler has finished,
\* whatever it did, exactly "Begin" and then "End." are logged.
C13_BeginThenEnd ==
    /\ reqPc = "idle" => IngressMsgs = <<>>
    /\ reqPc \in {"handler", "returned"} => IngressMsgs = <<"Begin">>
    /\ RequestOver => IngressMsgs = <<"Begin", "End.">>

\* The "End." line of the request.
EndLogged == Len(ingressLog) = 2 /\ ingressLog[2].msg = "End."
EndLine == ingressLog[2]
EndStatus == EndLine.fields[1][2]

\* C14: the "End." line is at the error level exactly when the status sent
\* to the client is 500 or more, and at the info level otherwise.
C14_ErrorLevelFrom500 ==
    EndLogged =>
        EndLine.level = IF Sent(wire) >= 500 THEN "error" ELSE "info"

\* C15: the status field of the "End." line is the status sent to the
\* client, whatever calls of WriteHeader and Write the handler made.
C15_StatusIsSent ==
    EndLogged => EndStatus = Sent(wire)

\* The request arrived without the header: the value on the request was
\* drawn from the uuid generator.
HeaderGenerated ==
    reqPc # "idle" /\ \E k \in 1..uuidCount : reqHeader = NewV4(k)

\* C16: once the middleware has delegated, the request carries a header;
\* when the request arrived without one, the generated value is the
\* correlationId of every line logged for the request and the CorrelationID
\* of every root context the handler has built from the request.
C16_GeneratedHeaderEverywhere ==
    /\ reqPc # "idle" => reqHeader # <<>>
    /\ HeaderGenerated =>
          /\ Len(ingressLog) >= 1 /\ ingressLog[1].msg = "Begin"
          /\ \A i \in 1..Len(ingressLog) : ingressLog[i].correlationId = reqHeader
          /\ \A n \in Roots :
                /\ nodes[n].CorrelationID = reqHeader
                /\ ~nodes[n].generated

\* A request without header, begun and ended, for which the handler built
\* a root context.
C16_Witness ==
    /\ HeaderGenerated
    /\ EndLogged
    /\ Roots # {}

\* The logger a has every field of the logger b, in the same places.
ExtendsLogger(a, b) == Len(a) >= Len(b) /\ SubSeq(a, 1, Len(b)) = b

\* The logger has a field under the key k; the value a reader of a line
\* finds under k, the one of the last such field.
HasKey(logger, k) == \E i \in 1..Len(logger) : logger[i][1] = k
ValueOf(logger, k) ==
    LET last == CHOOSE i \in 1..Len(logger) :
                    /\ logger[i][1] = k
                    /\ \A j \in (i + 1)..Len(logger) : logger[j][1] # k
    IN logger[last][2]

\* The keys of the fields given to loggers, and of the loggers at creation.
GivenKeys == FieldKeys \cup {"service"}

UpdateOver == updPc = "idle" /\ updCtx > 0

\* C24: when a request of the update handler is over and an operation
\* failed during it, LogError was called exactly once during the request and
\* the handler has written an error response; and at no moment of a request
\* were there more calls of LogError than failed operations.
C24_NoErrorSwallowed ==
    /\ updLogged <= Len(updFailed)
    /\ (UpdateOver /\ updFailed # <<>>) =>
          /\ updLogged = 1
          /\ updResp = RespondError

\* C26: whatever X-Correlation-ID value the request arrived with, the
\* correlationId of the lines logged for the request is the CorrelationID
\* of every root context the handler has built from the request.
C26_SameCorrelationID ==
    \A n \in Roots, i \in 1..Len(ingressLog) :
        ingressLog[i].correlationId = nodes[n].CorrelationID

(***************************************************************************)
(* Properties of LogError                                                  *)
(***************************************************************************)
\* The messages a call of LogError can carry, LogJSONParseError's included.
LoggedMessages == ErrorMessages \cup {MessageParseError}

\* The logger of a line written on node n with the given event type and
\* code.
EventLogger(n, eventType, eventCode) ==
    nodes[n].logger \o << <<"eventType", eventType>>, <<"eventCode", eventCode>> >>

\* The "error" field of a line for err.
ErrorOf(err) == IF err = NilError THEN <<>> ELSE << <<"error", err.text>> >>

\* C17: a step that writes through a context appends exactly one line and
\* leaves every context as it was; the line of LogError(err, msg) on node n
\* has, by the kind of err, the level, the event type and code and the
\* fields of that kind: validation, not found, API call (body and status
\* code only when present), unexpected, anything else.
C17_OneLinePerKind ==
    [][ ctxLog' # ctxLog =>
        /\ Len(ctxLog') = Len(ctxLog) + 1
        /\ SubSeq(ctxLog', 1, Len(ctxLog)) = ctxLog
        /\ nodes' = nodes
        /\ \A n \in 1..Len(nodes), err \in ErrorValues, msg \in LoggedMessages :
              LogError(n, err, msg) =>
                LET line == Last(ctxLog') IN
                IF err \in ValidationErrors
                THEN /\ line.level = "info"
                     /\ line.logger = EventLogger(n, EventTypeValidationErr, EventCodeInvalidData)
                     /\ line.fields = ErrorOf(err)
                ELSE IF err \in NotFoundErrors
                THEN /\ line.level = "debug"
                     /\ line.logger = EventLogger(n, EventTypeUnexpectedErr, err.ErrorKey)
                     /\ line.fields = ErrorOf(err) \o
                            << <<"resourceName", err.ResourceName>>,
                               <<"resourceValue", err.ResourceValue>> >>
                ELSE IF err \in APIClientErrors
                THEN /\ line.level = "error"
                     /\ line.logger = EventLogger(n, EventTypeUnexpectedErr, err.ErrorCode)
                     /\ Len(line.fields) >= 3
                     /\ SubSeq(line.fields, 1, 3) = ErrorOf(err) \o
                            << <<"stack", err.StackTrace>>, <<"apiURL", err.APIURL>> >>
                     /\ LET rest == SubSeq(line.fields, 4, Len(line.fields))
                            keys == { rest[i][1] : i \in 1..Len(rest) }
                        IN /\ Len(rest) = Cardinality(keys)
                           /\ "responseBody" \in keys <=> ~err.HTTPResponseBody.isNil
                           /\ "responseStatusCode" \in keys <=> ~err.HTTPStatusCode.isNil
                           /\ keys \subseteq {"responseBody", "responseStatusCode"}
                           /\ \A i \in 1..Len(rest) :
                                 rest[i][2] = IF rest[i][1] = "responseBody"
                                              THEN err.HTTPResponseBody.val
                                              ELSE err.HTTPStatusCode.val
                ELSE IF err \in UnexpectedErrors
                THEN /\ line.level = "error"
                     /\ line.logger = EventLogger(n, EventTypeUnexpectedErr, err.ErrorCode)
                     /\ line.fields = ErrorOf(err) \o << <<"stack", err.StackTrace>> >>
                ELSE /\ line.level = "error"
                     /\ line.logger = EventLogger(n, EventTypeUnexpectedErr, EventCodeUnknown)
                     /\ line.fields = ErrorOf(err) ]_vars

\* The line of an API-call failure with a response body and no status code,
\* written on the second of two contexts, one with a token.
C17_Witness ==
    /\ Len(ctxLog) = 1
    /\ ctxLog[1].level = "error"
    /\ Len(ctxLog[1].fields) = 4
    /\ ctxLog[1].fields[4][1] = "responseBody"
    /\ Len(nodes) = 2
    /\ nodes[1].Token = Nil /\ nodes[2].Token # Nil
    /\ ctxLog[1].logger = EventLogger(2, EventTypeUnexpectedErr, "Key_APIError")

\* C18: the line LogError(err, msg) writes has the fixed message for
\* invalid input when err is a validation error, whatever msg is, and the
\* message msg for every other err; LogJSONParseError(err) writes what
\* LogError(err, MessageParseError) writes.
C18_Message ==
    [][ ctxLog' # ctxLog =>
        \A n \in 1..Len(nodes), err \in ErrorValues :
          /\ \A msg \in LoggedMessages :
                LogError(n, err, msg) =>
                    Last(ctxLog').msg =
                        IF err \in ValidationErrors THEN MessageInvalidInputData ELSE msg
          /\ LogJSONParseError(n, err) =>
                Last(ctxLog').msg =
                    IF err \in ValidationErrors THEN MessageInvalidInputData
                    ELSE MessageParseError ]_vars

\* A line at the info level with the fixed message for invalid input.
C18_Witness ==
    /\ Len(ctxLog) = 1
    /\ ctxLog[1].level = "info"
    /\ ctxLog[1].msg = MessageInvalidInputData
    /\ ctxLog[1].fields = << <<"error", "name is required">> >>

(***************************************************************************)
(* Properties of DispatchEvent and Stop                                    *)
(***************************************************************************)
\* C19: on an App without event dispatcher a call of DispatchEvent changes
\* nothing; on an App with one, the call hands the dispatcher exactly one
\* event, made of the four arguments as they were passed, and changes
\* nothing else.
C19_ForwardOnce ==
    [][ Alive =>
        IF app.eventDispatcher = Nil
        THEN UNCHANGED vars
        ELSE /\ Len(dispatched') = Len(dispatched) + 1
             /\ SubSeq(dispatched', 1, Len(dispatched)) = dispatched
             /\ \A e \in EventArgs :
                   DispatchEvent(e.token, e.corelationID, e.topic, e.payload) =>
                       /\ Last(dispatched').token = e.token
                       /\ Last(dispatched').corelationID = e.corelationID
                       /\ Last(dispatched').topic = e.topic
                       /\ Last(dispatched').payload = e.payload
             /\ UNCHANGED <<appVars, ctxVars, retryVars, reqVars, logVars, updVars,
                            calls, stopPc, libCalls>> ]_vars

\* Two events were forwarded, the first with the empty token and the nil
\* payload, the second with a token and a payload.
C19_Witness ==
    /\ app.eventDispatcher # Nil
    /\ Len(dispatched) = 2
    /\ dispatched[1].token = "" /\ dispatched[1].payload = Nil
    /\ dispatched[2].token = "rawA" /\ dispatched[2].payload = "payloadA"

\* The calls a step has added to libCalls.
AddedCalls == SubSeq(libCalls', Len(libCalls) + 1, Len(libCalls'))
Closes == \E i \in 1..Len(AddedCalls) : AddedCalls[i].call = "Close"

\* C20: Stop calls Shutdown once, on the server the App holds; whatever
\* Shutdown returns, the rest of Stop closes the database handle exactly
\* when the database is required and app.DB.DB() returns an error beside a
\* handle, so never when the handle of the App's database was obtained
\* without error; it calls Shutdown no second time and leaves the App as it
\* is.
C20_CloseOnlyOnFailure ==
    [][ /\ (stopPc = "idle" /\ stopPc' = "shutdown") =>
              AddedCalls = << LibCall("Shutdown", app.server.id, NilErr) >>
        /\ (stopPc = "shutdown" /\ stopPc' = "idle") =>
              \A e \in ShutdownResults, h \in SqlDBResults :
                StopFinish(e, h) =>
                  /\ AddedCalls[1] = LibCall("ShutdownReturn", 0, e)
                  /\ \A i \in 1..Len(AddedCalls) : AddedCalls[i].call # "Shutdown"
                  /\ Closes <=> /\ cfg.DB_REQUIRED
                                /\ app.DB # Nil
                                /\ ~h.err.isNil
                                /\ h.sqlDB # Nil
                  /\ (h.err.isNil /\ (cfg.DB_REQUIRED => app.DB # Nil)) =>
                        ~Closes /\ appPc' = appPc
                  /\ app' = app ]_vars

\* Stop has returned on an App with a required and connected database
\* after a Shutdown that timed out, and the handle was not closed.
C20_Witness ==
    /\ cfg.DB_REQUIRED /\ app.DB = DBConnected
    /\ stopPc = "idle" /\ Alive
    /\ \E i \in 1..Len(libCalls) :
          libCalls[i].call = "ShutdownReturn" /\ libCalls[i].err = ErrDeadline
    /\ \A i \in 1..Len(libCalls) : libCalls[i].call # "Close"

(***************************************************************************)
(* Properties of Initialize and of initializeDB                            *)
(***************************************************************************)
\* The value is a number: digits, with or without a sign in front.
IsNumeric(val) ==
    \/ Len(val) >= 1 /\ \A i \in 1..Len(val) : val[i] \in Digits
    \/ /\ Len(val) >= 2 /\ val[1] \in {"+", "-"}
       /\ \A i \in 2..Len(val) : val[i] \in Digits

\* The lines a step has added to appLog.
AddedLines == SubSeq(appLog', Len(appLog) + 1, Len(appLog'))

\* C21: every call of Initialize ends with the server built and the
\* process running; the port of the server is the value of API_PORT when
\* that is set and a number, and 80 otherwise; a line at the error level is
\* logged exactly when API_PORT is set and not a number, and no fatal line.
C21_PortOrDefault ==
    [][ calls' # calls =>
        /\ appPc' = "initialized"
        /\ app'.server.built
        /\ app'.server.Addr =
              IF cfg.API_PORT.set /\ IsNumeric(cfg.API_PORT.val)
              THEN cfg.API_PORT.val ELSE <<"8", "0">>
        /\ (\E i \in 1..Len(AddedLines) : AddedLines[i][1] = "error")
              <=> (cfg.API_PORT.set /\ ~IsNumeric(cfg.API_PORT.val))
        /\ \A i \in 1..Len(AddedLines) : AddedLines[i][1] # "fatal" ]_vars

\* Initialize has built the server on port 80 for the API_PORT "80a", and
\* has logged the misconfiguration.
C21_Witness ==
    /\ cfg.API_PORT = Set(<<"8", "0", "a">>)
    /\ appPc = "initialized"
    /\ app.server.built /\ app.server.Addr = <<"8", "0">>
    /\ \E i \in 1..Len(appLog) : appLog[i] = LogLine("error", "API port needs to be a number.")

\* The attempt failed with an error whose text contains "connection
\* refused".
RefusedText(outcome) ==
    /\ ~outcome.sqlErr
    /\ ~outcome.err.isNil
    /\ \E i \in 1..(Len(outcome.err.text) - 1) :
          outcome.err.text[i] = "connection" /\ outcome.err.text[i + 1] = "refused"

\* The attempts are over: retry.Do has returned or the process has died.
AttemptsOver == rPc = "done" \/ appPc \in {"exited", "panicked"}

\* C22: in NewWithEnvValues with the database required there are at most 3
\* connection attempts, every attempt that another one follows failed with
\* "connection refused" in its text, what the closure returns is a plain
\* error for such a failure and the terminal wrapper for a success or any
\* other failure, and after 3 attempts or an attempt that is not such a
\* failure the attempts are over.  With the database not required there is
\* no attempt, retry.Do is not entered and app.DB stays nil.
C22_RetryOnlyRefused ==
    ctor = "NewWithEnvValues" =>
        IF cfg.DB_REQUIRED
        THEN /\ Len(connAttempts) <= 3
             /\ \A i \in 1..(Len(connAttempts) - 1) : RefusedText(connAttempts[i])
             /\ \A i \in 1..Len(OpResults(rTrace)) :
                   /\ i <= Len(connAttempts)
                   /\ OpResults(rTrace)[i].res.err = connAttempts[i].err
                   /\ OpResults(rTrace)[i].res.kind =
                         IF RefusedText(connAttempts[i]) THEN "plain" ELSE "stop"
             /\ (\/ Len(connAttempts) = 3
                 \/ \E i \in 1..Len(connAttempts) : ~RefusedText(connAttempts[i]))
                   => AttemptsOver
        ELSE /\ connAttempts = <<>>
             /\ rPc = "idle" /\ rTrace = <<>>
             /\ app.DB = Nil /\ dbVar = Nil

\* A refused attempt, then an attempt that failed with "access denied",
\* handed to retry.Do in the terminal wrapper, and no third attempt.
C22_Witness ==
    /\ ctor = "NewWithEnvValues" /\ cfg.DB_REQUIRED
    /\ Len(connAttempts) = 2
    /\ RefusedText(connAttempts[1])
    /\ connAttempts[2].err = ErrDenied
    /\ Last(rTrace).res = Stop(ErrDenied)
    /\ rPc = "done"

\* The line "Database connected!" is in the log of the App.
ConnectedLogged ==
    \E i \in 1..Len(appLog) : appLog[i] = LogLine("info", "Database connected!")

\* C25: in NewWithEnvValues the line "Database connected!" is logged, and
\* app.DB is assigned a handle, only when retry.Do has returned nil.
C25_ConnectedOnlyOnSuccess ==
    (ctor = "NewWithEnvValues" /\ (ConnectedLogged \/ app.DB # Nil)) =>
        (rPc = "done" /\ rResult.isNil)

====
